---- MODULE Spec2Model ----
(***************************************************************************)
(* Model of src/web/oidc.rs: the axum extractor Claims<T>, which reads the *)
(* bearer token of a request, has the shared oidc_jwt_validator::Validator *)
(* validate it for the claim shape T, and either hands Claims<T> to the    *)
(* handler or rejects the request with AuthError, which axum turns into a  *)
(* response through AuthError::into_response.                              *)
(*                                                                         *)
(* Text (header values, error descriptions) is a sequence of characters,   *)
(* each a one-character string, so that format! is a concatenation and a   *)
(* header value can be scanned the way a client scans it.                  *)
(***************************************************************************)
EXTENDS Naturals, Sequences, FiniteSets

VARIABLES validator, pc, hdr, bearer, calls, ret, resp

vars == <<validator, pc, hdr, bearer, calls, ret, resp>>

(***************************************************************************)
(* Bounds of the model.                                                    *)
(***************************************************************************)
\* Number of request flows that run concurrently against the one Validator.
NumRequests == 2

Requests == 1..NumRequests

(***************************************************************************)
(* Characters with a meaning to HTTP.                                      *)
(***************************************************************************)
DQUOTE == "\""

BACKSLASH == "\\"

LF == "\n"

HTAB == "\t"

\* The grave accent, which a TLA+ string cannot hold, by name.
BACKTICK == "GRAVE"

\* The control characters (bytes below 32, and 127) the model's texts use.
ControlChars == {LF, HTAB}

(***************************************************************************)
(* Inputs: bearer tokens, claim values of shape T, failure descriptions.   *)
(***************************************************************************)
Tokens == {"abc.def.ghi", "xyz.uvw.rst"}

\* Values of the claim shape T = {sub: string, role: string}.
ClaimValues == {[sub |-> "u1", role |-> "admin"], [sub |-> "u2", role |-> "user"]}

\* The Validator's contract lets the reason of a failure be any text; these
\* are the shapes the texts of its error type take.
\* Display text of a signature/expiry failure.
ExpiredSignature ==
    <<"E","x","p","i","r","e","d","S","i","g","n","a","t","u","r","e">>

\* Display texts of failures to deserialize the claim payload into T: a
\* required field is absent; a field has the wrong type (the offending
\* string is shown quoted); a field is not part of T (its name, taken from
\* the payload, is shown as it is, here with a line feed in it).
MissingField ==
    <<"m","i","s","s","i","n","g"," ","f","i","e","l","d"," ",BACKTICK,"r","o","l",
      "e",BACKTICK>>

InvalidType ==
    <<"i","n","v","a","l","i","d"," ","t","y","p","e",":"," ","s","t","r","i",
      "n","g"," ",DQUOTE,"u","1",DQUOTE>>

UnknownField ==
    <<"u","n","k","n","o","w","n"," ","f","i","e","l","d"," ",BACKTICK,"a",LF,"b",
      BACKTICK>>

\* The same, the field's name holding a horizontal tab.
TabbedField ==
    <<"u","n","k","n","o","w","n"," ","f","i","e","l","d"," ",BACKTICK,"a",HTAB,
      "b",BACKTICK>>

CryptoReasons == {ExpiredSignature}

DeserReasons == {MissingField, InvalidType, UnknownField, TabbedField}

\* What Validator::validate::<T>(token) can return: Ok(TokenData{claims}) or
\* Err(e), where e.to_string() is the reason.  "cause" records why the
\* Validator failed; the extractor never sees it.
ValidatorOutcomes ==
    [tag : {"Ok"}, claims : ClaimValues]
    \cup [tag : {"Err"}, cause : {"crypto"}, reason : CryptoReasons]
    \cup [tag : {"Err"}, cause : {"deserialize"}, reason : DeserReasons]

\* The Authorization header of a request: absent, another scheme, the
\* bearer scheme without credentials, or Bearer <token>.
AuthorizationHeaders ==
    {[present |-> FALSE]}
    \cup {[present |-> TRUE, scheme |-> "Basic", credentials |-> "abc123"]}
    \cup {[present |-> TRUE, scheme |-> "Bearer", credentials |-> ""]}
    \cup [present : {TRUE}, scheme : {"Bearer"}, credentials : Tokens]

(***************************************************************************)
(* Claims<T> and AuthError.                                                *)
(***************************************************************************)
\* struct Claims<T>(T)
Claims(t) == [inner |-> t]

\* Deref for Claims<T>: &self.0
deref(c) == c.inner

\* AuthError::InvalidToken(String)
InvalidToken(msg) == [variant |-> "InvalidToken", msg |-> msg]

Ok(v) == [tag |-> "Ok", value |-> v]

Err(e) == [tag |-> "Err", error |-> e]

NoResult == [tag |-> "None"]

(***************************************************************************)
(* AuthError::into_response                                                *)
(***************************************************************************)
StatusUnauthorized == 401

ChallengePrefix ==
    <<"B","e","a","r","e","r"," ","r","e","a","l","m","=",DQUOTE,"s","s","h",
      "-","c","a","s","i","g","n",DQUOTE," ","e","r","r","o","r","=",DQUOTE,
      "i","n","v","a","l","i","d","_","t","o","k","e","n",DQUOTE," ","e","r",
      "r","o","r","_","d","e","s","c","r","i","p","t","i","o","n","=",DQUOTE>>

\* format!(r#"Bearer realm="ssh-casign" error="invalid_token"
\*            error_description="{}""#, msg)
FormatChallenge(msg) == ChallengePrefix \o msg \o <<DQUOTE>>

\* http::HeaderValue accepts a byte b iff b >= 32 && b != 127 || b == '\t'.
is_valid(c) == c \notin ControlChars \/ c = HTAB

\* Response::builder().header(name, value): the builder keeps the error of
\* a value with a byte that is not valid, and .body() then returns Err.
HeaderValueOk(value) == \A i \in 1..Len(value) : is_valid(value[i])

NoResponse == [tag |-> "None"]

Panic == [tag |-> "Panic"]

\* The match of into_response: build the 401 response; .expect(..) panics
\* when the builder returned Err.
into_response(e) ==
    LET value == FormatChallenge(e.msg)
    IN  IF HeaderValueOk(value)
        THEN [tag |-> "Response",
              status |-> StatusUnauthorized,
              www_authenticate |-> value,
              body |-> <<>>]
        ELSE Panic

(***************************************************************************)
(* Claims::from_request_parts                                              *)
(***************************************************************************)
MissingHeaderText ==
    <<"H","e","a","d","e","r"," ","o","f"," ","t","y","p","e"," ",BACKTICK,"a","u",
      "t","h","o","r","i","z","a","t","i","o","n",BACKTICK," ","w","a","s"," ","m",
      "i","s","s","i","n","g">>

InvalidHeaderText ==
    <<"i","n","v","a","l","i","d"," ","H","T","T","P"," ","h","e","a","d","e",
      "r"," ","(","a","u","t","h","o","r","i","z","a","t","i","o","n",")">>

\* ExtractBearer with a fault: the scheme of the credentials is not looked at.
ExtractBearerAnyScheme(h) ==
    IF ~h.present THEN Err("Missing")
    ELSE IF h.credentials # "" THEN Ok(h.credentials)
    ELSE Err("Error")

\* parts.extract::<TypedHeader<Authorization<Bearer>>>(): the bearer token,
\* or a TypedHeaderRejection saying the header is missing or did not decode.
ExtractBearer(h) ==
    IF ~h.present THEN Err("Missing")
    ELSE IF h.scheme = "Bearer" /\ h.credentials # "" THEN Ok(h.credentials)
    ELSE Err("Error")

\* err.to_string() of a TypedHeaderRejection
RejectionToString(reason) ==
    IF reason = "Missing" THEN MissingHeaderText ELSE InvalidHeaderText

\* ClaimsOfValidation with a fault: a failed validation yields default claims.
ClaimsOfValidationLenient(v) ==
    IF v.tag = "Ok" THEN Ok(Claims(v.claims))
    ELSE Ok(Claims([sub |-> "", role |-> ""]))

\* ClaimsOfValidation with a fault: the claims are rewritten on the way.
ClaimsOfValidationRewritten(v) ==
    IF v.tag = "Ok" THEN Ok(Claims([v.claims EXCEPT !.role = "user"]))
    ELSE Err(InvalidToken(v.reason))

\* .map_err(|err| AuthError::InvalidToken(err.to_string()))? followed by
\* Ok(Claims(token_data.claims)), applied to what validate returned.
ClaimsOfValidation(v) ==
    IF v.tag = "Ok" THEN Ok(Claims(v.claims))
    ELSE Err(InvalidToken(v.reason))

TypeOK ==
    /\ validator \in [Tokens -> ValidatorOutcomes]
    /\ pc \in [Requests -> {"idle", "awaiting", "accepted", "rejected",
                            "responded", "panicked", "cancelled"}]
    /\ hdr \in [Requests -> AuthorizationHeaders]
    /\ bearer \in [Requests -> Tokens \cup {""}]
    /\ \A r \in Requests : calls[r] \in Seq(Tokens) /\ Len(calls[r]) <= 1

\* The service holds one Validator behind an Arc; no request has arrived.
Init ==
    /\ validator \in [Tokens -> ValidatorOutcomes]
    /\ pc = [r \in Requests |-> "idle"]
    /\ hdr = [r \in Requests |-> [present |-> FALSE]]
    /\ bearer = [r \in Requests |-> ""]
    /\ calls = [r \in Requests |-> <<>>]
    /\ ret = [r \in Requests |-> NoResult]
    /\ resp = [r \in Requests |-> NoResponse]

\* from_request_parts is called for request r, whose Authorization header
\* is h.  The header is extracted; a rejection returns Err at once; a bearer
\* token goes to validate, and the flow is suspended at its .await.
FromRequestParts(r, h) ==
    /\ pc[r] = "idle"
    /\ hdr' = [hdr EXCEPT ![r] = h]
    /\ LET x == ExtractBearer(h)
       IN  IF x.tag = "Err"
           THEN /\ ret' = [ret EXCEPT
                      ![r] = Err(InvalidToken(RejectionToString(x.error)))]
                /\ pc' = [pc EXCEPT ![r] = "rejected"]
                /\ UNCHANGED <<bearer, calls>>
           ELSE /\ bearer' = [bearer EXCEPT ![r] = x.value]
                /\ calls' = [calls EXCEPT ![r] = Append(@, x.value)]
                /\ pc' = [pc EXCEPT ![r] = "awaiting"]
                /\ UNCHANGED ret
    /\ UNCHANGED <<validator, resp>>

\* ValidateResume with a fault: the Validator sits behind a try-lock, and a
\* flow that resumes while another one is still awaiting is turned away.
ValidateResumeExclusive(r) ==
    /\ pc[r] = "awaiting"
    /\ LET busy == \E q \in Requests \ {r} : pc[q] = "awaiting"
           result == IF busy THEN Err(InvalidToken(ExpiredSignature))
                     ELSE ClaimsOfValidation(validator[bearer[r]])
       IN  /\ ret' = [ret EXCEPT ![r] = result]
           /\ pc' = [pc EXCEPT
                  ![r] = IF result.tag = "Ok" THEN "accepted" ELSE "rejected"]
    /\ UNCHANGED <<validator, hdr, bearer, calls, resp>>

\* The Validator answers and the flow of r resumes: Err becomes
\* AuthError::InvalidToken and is returned, Ok is wrapped in Claims.
ValidateResume(r) ==
    /\ pc[r] = "awaiting"
    /\ LET result == ClaimsOfValidation(validator[bearer[r]])
       IN  /\ ret' = [ret EXCEPT ![r] = result]
           /\ pc' = [pc EXCEPT
                  ![r] = IF result.tag = "Ok" THEN "accepted" ELSE "rejected"]
    /\ UNCHANGED <<validator, hdr, bearer, calls, resp>>

\* The request is aborted while the flow awaits the Validator: the future
\* is dropped, nothing is returned and no response is produced.
Cancel(r) ==
    /\ pc[r] = "awaiting"
    /\ pc' = [pc EXCEPT ![r] = "cancelled"]
    /\ UNCHANGED <<validator, hdr, bearer, calls, ret, resp>>

\* axum turns the rejection of r into the response: AuthError::into_response
\* returns the 401 response, or panics in .expect(..).
Respond(r) ==
    /\ pc[r] = "rejected"
    /\ LET out == into_response(ret[r].error)
       IN  /\ resp' = [resp EXCEPT ![r] = out]
           /\ pc' = [pc EXCEPT
                  ![r] = IF out.tag = "Panic" THEN "panicked" ELSE "responded"]
    /\ UNCHANGED <<validator, hdr, bearer, calls, ret>>

Next ==
    \/ \E r \in Requests, h \in AuthorizationHeaders : FromRequestParts(r, h)
    \/ \E r \in Requests : ValidateResume(r)
    \/ \E r \in Requests : Cancel(r)
    \/ \E r \in Requests : Respond(r)

Spec == Init /\ [][Next]_vars

(***************************************************************************)
(* How a client reads the challenge (RFC 7235 auth-param, RFC 7230         *)
(* quoted-string).                                                         *)
(***************************************************************************)
ErrorParam ==
    <<"e","r","r","o","r","=",DQUOTE,"i","n","v","a","l","i","d","_","t","o",
      "k","e","n",DQUOTE>>

Contains(s, sub) ==
    \E i \in 1..Len(s) :
        /\ i + Len(sub) - 1 <= Len(s)
        /\ SubSeq(s, i, i + Len(sub) - 1) = sub

HasPrefix(s, p) == Len(p) <= Len(s) /\ SubSeq(s, 1, Len(p)) = p

\* Index of the DQUOTE that closes the quoted-string whose content starts
\* at i (a backslash quotes the next character); 0 when nothing closes it.
RECURSIVE ClosingQuote(_, _)
ClosingQuote(s, i) ==
    IF i > Len(s) THEN 0
    ELSE IF s[i] = BACKSLASH THEN ClosingQuote(s, i + 2)
    ELSE IF s[i] = DQUOTE THEN i
    ELSE ClosingQuote(s, i + 1)

\* The content of that quoted-string, quoted pairs resolved.
RECURSIVE Unquote(_, _)
Unquote(s, i) ==
    IF i > Len(s) \/ s[i] = DQUOTE THEN <<>>
    ELSE IF s[i] = BACKSLASH /\ i < Len(s)
         THEN <<s[i + 1]>> \o Unquote(s, i + 2)
         ELSE <<s[i]>> \o Unquote(s, i + 1)

\* The error_description a client reads from the header value.
ErrorDescriptionOf(value) == Unquote(value, Len(ChallengePrefix) + 1)

\* The header value is the three auth-params and nothing else: the quoted
\* error_description is closed by the last character, not before, and no
\* character is one a header value cannot hold.
WellFormedChallenge(value) ==
    /\ HasPrefix(value, ChallengePrefix)
    /\ ClosingQuote(value, Len(ChallengePrefix) + 1) = Len(value)
    /\ \A i \in 1..Len(value) : value[i] \notin ControlChars \ {HTAB}

(***************************************************************************)
(* Vocabulary of the claims.                                               *)
(***************************************************************************)
Started(r) == pc[r] # "idle"

\* The request carries a well-formed `Authorization: Bearer <token>`.
WellFormedBearer(h) ==
    h.present /\ h.scheme = "Bearer" /\ h.credentials \in Tokens

\* The description of the header parser's error for a header it refuses.
ParseErrorText(h) ==
    IF h.present THEN InvalidHeaderText ELSE MissingHeaderText

\* The flow of r is over and was not cancelled.
Ended(r) == pc[r] \in {"accepted", "responded", "panicked"}

Is401(x) == x.tag = "Response" /\ x.status = 401

(***************************************************************************)
(* C1: a Claims Container exists for a request only if validate was        *)
(* invoked for that request's bearer token and returned success.           *)
(***************************************************************************)
C1_ClaimsOnlyAfterAcceptedValidation ==
    \A r \in Requests :
        ret[r].tag = "Ok" =>
            /\ WellFormedBearer(hdr[r])
            /\ calls[r] = <<hdr[r].credentials>>
            /\ validator[hdr[r].credentials].tag = "Ok"

C1_Witness == \E r \in Requests : pc[r] = "accepted" /\ ret[r].tag = "Ok"

(***************************************************************************)
(* C2: with a well-formed bearer header whose token the Validator accepts  *)
(* with claims c, from_request_parts succeeds and the Claims Container     *)
(* dereferences to c.                                                      *)
(***************************************************************************)
C2_ClaimsAreWhatValidatorReturned ==
    \A r \in Requests :
        ( /\ Started(r)
          /\ WellFormedBearer(hdr[r])
          /\ validator[hdr[r].credentials].tag = "Ok"
          /\ pc[r] \notin {"awaiting", "cancelled"} )
        => /\ pc[r] = "accepted"
           /\ ret[r].tag = "Ok"
           /\ deref(ret[r].value) = validator[hdr[r].credentials].claims

C2_Witness ==
    \E r \in Requests :
        /\ pc[r] = "accepted"
        /\ hdr[r].credentials = "abc.def.ghi"
        /\ deref(ret[r].value) = [sub |-> "u1", role |-> "admin"]

(***************************************************************************)
(* C3: no request makes the service panic: every failure becomes an        *)
(* AuthError and into_response returns a response for it.                  *)
(***************************************************************************)
C3_NoPanic == \A r \in Requests : pc[r] # "panicked" /\ resp[r] # Panic

C5_ReasonReachesHeader ==
    \A r \in Requests :
        ( /\ Started(r)
          /\ WellFormedBearer(hdr[r])
          /\ validator[hdr[r].credentials].tag = "Err"
          /\ pc[r] \notin {"awaiting", "cancelled"} )
        => /\ ret[r] = Err(InvalidToken(validator[hdr[r].credentials].reason))
           /\ pc[r] # "rejected" =>
                 /\ Is401(resp[r])
                 /\ ErrorDescriptionOf(resp[r].www_authenticate)
                        = validator[hdr[r].credentials].reason

(***************************************************************************)
(* C6: every Auth Failure is mapped to the one response shape: status 401, *)
(* WWW-Authenticate exactly the challenge with the fixed realm and the     *)
(* description, empty body; no failure response has another status.        *)
(***************************************************************************)
C6_SingleResponseShape ==
    \A r \in Requests :
        /\ resp[r].tag = "Response" => resp[r].status = 401
        /\ (ret[r].tag = "Err" /\ pc[r] # "rejected") =>
               resp[r] = [tag |-> "Response",
                          status |-> 401,
                          www_authenticate |->
                              ChallengePrefix \o ret[r].error.msg \o <<DQUOTE>>,
                          body |-> <<>>]

(***************************************************************************)
(* C7: the description is safely embedded in the quoted header value: the  *)
(* emitted WWW-Authenticate value is never malformed, whatever double      *)
(* quote or control character the description holds.                       *)
(***************************************************************************)
C7_HeaderNeverMalformed ==
    \A r \in Requests :
        resp[r].tag = "Response" =>
            WellFormedChallenge(resp[r].www_authenticate)

(***************************************************************************)
(* C8: a token that passes the signature/expiry checks but whose payload   *)
(* does not deserialize into T is answered with the invalid-token 401      *)
(* response, as a cryptographic failure is.                                *)
(***************************************************************************)
C8_DeserializationFailureIs401 ==
    \A r \in Requests :
        ( /\ Started(r)
          /\ WellFormedBearer(hdr[r])
          /\ validator[hdr[r].credentials].tag = "Err"
          /\ validator[hdr[r].credentials].cause = "deserialize"
          /\ pc[r] \notin {"awaiting", "cancelled"} )
        => /\ ret[r].tag = "Err"
           /\ ret[r].error.variant = "InvalidToken"
           /\ pc[r] # "rejected" =>
                 /\ Is401(resp[r])
                 /\ Contains(resp[r].www_authenticate, ErrorParam)

(***************************************************************************)
(* C9: two flows that present the same valid token and run concurrently    *)
(* both succeed with equal Claims Containers under every interleaving, and *)
(* a step of one flow writes nothing of another flow nor of the Validator. *)
(***************************************************************************)
SameValidToken(r1, r2) ==
    /\ r1 # r2
    /\ Started(r1) /\ Started(r2)
    /\ WellFormedBearer(hdr[r1]) /\ WellFormedBearer(hdr[r2])
    /\ hdr[r1].credentials = hdr[r2].credentials
    /\ validator[hdr[r1].credentials].tag = "Ok"

C9_BothSucceedEqually ==
    \A r1, r2 \in Requests :
        SameValidToken(r1, r2) =>
            /\ \A r \in {r1, r2} :
                  \/ pc[r] \in {"awaiting", "cancelled"}
                  \/ /\ pc[r] = "accepted"
                     /\ ret[r] = Ok(Claims(validator[hdr[r].credentials].claims))
            /\ (pc[r1] = "accepted" /\ pc[r2] = "accepted") => ret[r1] = ret[r2]

C9_StepWritesOwnFlowOnly ==
    /\ validator' = validator
    /\ \A r \in Requests :
          pc'[r] = pc[r] =>
              /\ hdr'[r] = hdr[r]
              /\ bearer'[r] = bearer[r]
              /\ calls'[r] = calls[r]
              /\ ret'[r] = ret[r]
              /\ resp'[r] = resp[r]

C9_ConcurrentFlowsIndependent ==
    [](C9_BothSucceedEqually) /\ [][C9_StepWritesOwnFlowOnly]_vars

\* One flow has resumed with its claims while the other, with the same
\* token, is still suspended at the Validator.
C9_Witness ==
    \E r1, r2 \in Requests :
        /\ SameValidToken(r1, r2)
        /\ pc[r1] = "accepted"
        /\ ret[r1].tag = "Ok"
        /\ pc[r2] = "awaiting"

(***************************************************************************)
(* C10: per request the Validator is invoked at most once and only after   *)
(* the header was extracted; a failure is terminal; every request that is  *)
(* not cancelled ends in exactly one outcome, a Claims Container or the    *)
(* 401 response.                                                           *)
(***************************************************************************)
C10_ValidatorOnceAfterExtraction ==
    \A r \in Requests :
        /\ Len(calls[r]) <= 1
        /\ calls[r] # <<>> => WellFormedBearer(hdr[r])
        /\ ret[r].tag = "Err" => resp[r].tag # "Response" \/ pc[r] = "responded"

C10_OneOutcome ==
    \A r \in Requests :
        Ended(r) =>
            \/ ret[r].tag = "Ok" /\ resp[r] = NoResponse
            \/ ret[r].tag = "Err" /\ Is401(resp[r])

C10_LinearFlowOneOutcome == C10_ValidatorOnceAfterExtraction /\ C10_OneOutcome

====
